---- MODULE Spec2Model ----
(***************************************************************************)
(* TransUNet (src/models/TransUNet/model.py): construction of the model    *)
(* and the data flow of one forward pass, on tensor shapes.                *)
(*                                                                         *)
(* A tensor is a record [shape, by]: shape is x.shape as a tuple, by names *)
(* the layer that produced the tensor (<<"conv", i>> is the output of the  *)
(* i-th encoder stage, counted from 1).                                    *)
(*                                                                         *)
(* UNetBase, UNetDecoder, TransUNetEncoderConvBlock and TransUNetViT are   *)
(* imported by model.py (lines 5-6) from modules that are not part of the  *)
(* source at hand; they are modelled from the specification's description  *)
(* of their tensor shapes.                                                 *)
(***************************************************************************)
EXTENDS Integers, Sequences, FiniteSets, TLC

VARIABLES
    args,           \* the arguments of TransUNet(...), fixed for a behaviour
    pc,             \* position in __init__ / forward
    err,            \* the exception raised, "" when none
    self,           \* the fields of the TransUNet object
    conv_round,     \* how an encoder stage halves an odd size, fixed for a behaviour
    input,          \* forward: the tensor passed to forward
    x,              \* forward: the local x
    hidden_xs,      \* forward: the encoder's list of recorded feature maps
    it,             \* forward: number of encoder layers the loop has run
    vit_input,      \* forward: the tensor handed to self.vit
    dec_skips,      \* forward: the list handed to the decoder
    fused,          \* forward: the skip maps the decoder has fused so far
    out,            \* forward: the returned tensor
    rpc, rp, rin, rout, rback   \* the middle layer applied to tensor contents

vars == <<args, pc, err, self, conv_round, input, x, hidden_xs, it, vit_input, dec_skips,
          fused, out, rpc, rp, rin, rout, rback>>
fwdVars == <<input, x, hidden_xs, it, vit_input, dec_skips, fused, out>>
reVars == <<rpc, rp, rin, rout, rback>>

----------------------------------------------------------------------------
(* Bounds of the model *)
MaxStages == 2
MaxImage == 8
MaxBatch == 2
MaxOut == 2

(* The documented configuration, model.py lines 89-103 *)
DocInputChannel == 3
DocMiddleChannel == 512
DocOutputChannel == 10
DocImageSize == 224
DocDim == 512
PatchSize == 2
NoneSize == -1

Widths == {4, 8}
MinImage == 2 * PatchSize
HeightOffsets == {-1, 0, 1}
WidthOffsets == {0, 1}

----------------------------------------------------------------------------
(* Helpers *)
RECURSIVE Pow2(_)
Pow2(n) == IF n <= 0 THEN 1 ELSE 2 * Pow2(n - 1)

Reverse(s) == [i \in 1..Len(s) |-> s[Len(s) + 1 - i]]

SeqsUpTo(S, n) == UNION {[1..k -> S] : k \in 0..n}

NoTensor == [shape |-> <<>>, by |-> <<"none", 0>>]

Tensor(shape, by) == [shape |-> shape, by |-> by]

----------------------------------------------------------------------------
(* The constructor arguments *)
DocArgs(remain) ==
    [input_channel |-> DocInputChannel, middle_channel |-> DocMiddleChannel,
     output_channel |-> DocOutputChannel,
     channel_in_between |-> <<64, 128, 256>>,
     num_res_blocks_in_between |-> <<3, 4, 9>>,
     image_size |-> DocImageSize, dim |-> DocDim, to_remain_size |-> remain]

BlockCounts(n) == [i \in 1..n |-> i]

ArgSpace ==
    {[input_channel |-> DocInputChannel, middle_channel |-> mc,
      output_channel |-> oc, channel_in_between |-> cib,
      num_res_blocks_in_between |-> BlockCounts(nb),
      image_size |-> img, dim |-> DocDim, to_remain_size |-> remain] :
        mc \in {DocMiddleChannel, DocMiddleChannel \div 2},
        oc \in 1..MaxOut,
        cib \in SeqsUpTo(Widths, MaxStages),
        nb \in 0..(MaxStages + 1),
        img \in MinImage..MaxImage,
        remain \in BOOLEAN}
    \cup {DocArgs(remain) : remain \in BOOLEAN}

NoSelf ==
    [channel_in_between |-> <<>>, to_remain_size |-> FALSE, image_size |-> NoneSize,
     vit_input_size |-> NoneSize, vit_output_size |-> NoneSize,
     layers |-> <<>>, vit |-> [image_size |-> NoneSize, image_channel |-> 0],
     middle_p |-> NoneSize, decoder |-> <<>>,
     output_layer |-> [cin |-> 0, cout |-> 0]]

Init ==
    /\ args \in ArgSpace
    /\ pc = "new"
    /\ err = ""
    /\ self = NoSelf
    /\ conv_round \in {"floor", "ceil"}
    /\ input = NoTensor /\ x = NoTensor /\ hidden_xs = <<>> /\ it = 0
    /\ vit_input = NoTensor /\ dec_skips = <<>> /\ fused = <<>> /\ out = NoTensor
    /\ rpc = "idle" /\ rp = 0 /\ rin = <<>> /\ rout = <<>> /\ rback = <<>>

----------------------------------------------------------------------------
(* TransUNet.__init__ *)

Fail(kind) == /\ pc' = "failed" /\ err' = kind

(* line 56: UNetBase.__init__ keeps the shared configuration on the object *)
UNetBaseInit ==
    /\ pc = "new"
    /\ self' = [self EXCEPT !.channel_in_between = args.channel_in_between,
                            !.to_remain_size = args.to_remain_size,
                            !.image_size = args.image_size]
    /\ pc' = "base"
    /\ UNCHANGED <<args, conv_round, err, fwdVars, reVars>>

(* lines 58-59 *)
VitInputSize(image_size, channel_in_between) ==
    image_size \div Pow2(Len(channel_in_between))

VitOutputSize(vit_input_size) == vit_input_size \div 2

DeriveSizes ==
    /\ pc = "base"
    /\ LET vis == VitInputSize(self.image_size, self.channel_in_between)
       IN self' = [self EXCEPT !.vit_input_size = vis,
                               !.vit_output_size = VitOutputSize(vis)]
    /\ pc' = "sized"
    /\ UNCHANGED <<args, conv_round, err, fwdVars, reVars>>

(* line 13 with the lower bound off by one *)
EncoderAssert_AllowsEmpty(channel_in_between) == Len(channel_in_between) >= 0

(* line 13 *)
EncoderAssert(channel_in_between) == Len(channel_in_between) >= 1

(* line 17: the constructor of one encoder stage *)
TransUNetEncoderConvBlock(idx, cin, cout, nblocks) ==
    [idx |-> idx, cin |-> cin, cout |-> cout, nblocks |-> nblocks]

(* lines 20-24: the constructor of the transformer *)
TransUNetViT(image_size, image_channel) ==
    [image_size |-> image_size, image_channel |-> image_channel]

(* lines 60-66 and 10-24: TransUNetEncoder.__init__ *)
EncoderInit ==
    /\ pc = "sized"
    /\ IF ~EncoderAssert(self.channel_in_between)
         THEN Fail("AssertionError") /\ UNCHANGED self
         ELSE LET ext == <<args.input_channel>> \o self.channel_in_between
                  nres == args.num_res_blocks_in_between
              IN IF \E idx \in 1..(Len(ext) - 1) : idx > Len(nres)
                   THEN Fail("IndexError") /\ UNCHANGED self
                   ELSE /\ self' = [self EXCEPT
                              !.layers = [idx \in 1..(Len(ext) - 1) |->
                                  TransUNetEncoderConvBlock(idx, ext[idx], ext[idx + 1], nres[idx])],
                              !.vit = TransUNetViT(self.vit_input_size, ext[Len(ext)])]
                        /\ pc' = "encoder"
                        /\ UNCHANGED err
    /\ UNCHANGED <<args, conv_round, fwdVars, reVars>>

(* line 67 *)
MiddleInit ==
    /\ pc = "encoder"
    /\ self' = [self EXCEPT !.middle_p = self.vit_output_size]
    /\ pc' = "middle"
    /\ UNCHANGED <<args, conv_round, err, fwdVars, reVars>>

(* UNetDecoder.__init__: one stage per entry of the channel list it is given;
   stage k takes the running map, fuses a skip map of channels[k] channels and
   produces channels[k] channels *)
UNetDecoder(middle_channel, channels) ==
    [k \in 1..Len(channels) |->
        [cin |-> IF k = 1 THEN middle_channel ELSE channels[k - 1],
         skip |-> channels[k], cout |-> channels[k]]]

(* line 68 *)
DecoderChannels(channel_in_between) == Reverse(channel_in_between)

DecoderInit ==
    /\ pc = "middle"
    /\ self' = [self EXCEPT !.decoder =
                    UNetDecoder(args.middle_channel, DecoderChannels(self.channel_in_between))]
    /\ pc' = "decoder"
    /\ UNCHANGED <<args, conv_round, err, fwdVars, reVars>>

(* line 69 *)
OutputLayerInit ==
    /\ pc = "decoder"
    /\ IF Len(self.channel_in_between) = 0
         THEN Fail("IndexError") /\ UNCHANGED self
         ELSE /\ self' = [self EXCEPT !.output_layer =
                              [cin |-> self.channel_in_between[1], cout |-> args.output_channel]]
              /\ pc' = "built"
              /\ UNCHANGED err
    /\ UNCHANGED <<args, conv_round, fwdVars, reVars>>

----------------------------------------------------------------------------
(* TransUNet.forward *)

Raise(kind) == /\ pc' = "raised" /\ err' = kind

InputShapes ==
    {<<b, args.input_channel, args.image_size + dh, args.image_size + dw>> :
        b \in 1..MaxBatch, dh \in HeightOffsets, dw \in WidthOffsets}

(* line 72: forward is entered with a 4-d tensor; a built model can be called
   again after a call has returned or raised *)
ForwardCall ==
    /\ pc \in {"built", "returned", "raised"}
    /\ \E shape \in InputShapes :
          /\ shape[3] >= 1 /\ shape[4] >= 1
          /\ input' = Tensor(shape, <<"input", 0>>)
    /\ x' = input'
    /\ hidden_xs' = <<>> /\ it' = 0
    /\ vit_input' = NoTensor /\ dec_skips' = <<>> /\ fused' = <<>> /\ out' = NoTensor
    /\ err' = ""
    /\ pc' = "fwd_enc"
    /\ UNCHANGED <<args, conv_round, self, reVars>>

(* One encoder stage applied to a feature map: the channel depth becomes the
   stage's, the spatial resolution is halved; whether an odd size is halved
   downwards or upwards is the stage's own choice of padding *)
Halve(n) == IF conv_round = "floor" THEN n \div 2 ELSE (n + 1) \div 2

ConvBlockAccepts(layer, t) == Len(t.shape) = 4 /\ t.shape[2] = layer.cin

ConvBlockForward(layer, t) ==
    Tensor(<<t.shape[1], layer.cout, Halve(t.shape[3]), Halve(t.shape[4])>>,
           <<"conv", layer.idx>>)

(* line 30 inserting at the front *)
RecordHidden_Prepend(hs, t) == <<t>> \o hs

(* line 30 *)
RecordHidden(hs, t) == Append(hs, t)

(* lines 28-30: one iteration of the loop over self.layers *)
EncoderStage ==
    /\ pc = "fwd_enc"
    /\ it < Len(self.layers)
    /\ LET layer == self.layers[it + 1]
       IN IF ConvBlockAccepts(layer, x)
            THEN /\ x' = ConvBlockForward(layer, x)
                 /\ hidden_xs' = RecordHidden(hidden_xs, x')
                 /\ it' = it + 1
                 /\ UNCHANGED <<pc, err>>
            ELSE /\ Raise("RuntimeError")
                 /\ UNCHANGED <<x, hidden_xs, it>>
    /\ UNCHANGED <<args, conv_round, self, input, vit_input, dec_skips, fused, out, reVars>>

(* The transformer applied to the deepest feature map: it is built for maps of
   image_size x image_size and image_channel channels, and returns one token of
   dim features per patch *)
ViTAccepts(vit, t) ==
    /\ Len(t.shape) = 4
    /\ t.shape[2] = vit.image_channel
    /\ t.shape[3] = vit.image_size /\ t.shape[4] = vit.image_size

ViTForward(vit, t) ==
    Tensor(<<t.shape[1], (t.shape[3] \div PatchSize) * (t.shape[4] \div PatchSize), args.dim>>,
           <<"vit", 0>>)

(* line 32, reached when the loop of lines 28-30 is exhausted *)
EncoderViT ==
    /\ pc = "fwd_enc"
    /\ it = Len(self.layers)
    /\ vit_input' = x
    /\ IF ViTAccepts(self.vit, x)
         THEN /\ x' = ViTForward(self.vit, x)
              /\ pc' = "fwd_mid"
              /\ UNCHANGED err
         ELSE /\ Raise("RuntimeError")
              /\ UNCHANGED x
    /\ UNCHANGED <<args, conv_round, self, input, hidden_xs, it, dec_skips, fused, out, reVars>>

(* line 67: Rearrange("b (p q) d -> b d p q", p=p) on a shape *)
RearrangeAccepts(p, shape) == Len(shape) = 3 /\ p > 0 /\ shape[2] % p = 0

RearrangeShape(p, shape) == <<shape[1], shape[3], p, shape[2] \div p>>

(* line 75 *)
MiddleLayer ==
    /\ pc = "fwd_mid"
    /\ IF RearrangeAccepts(self.middle_p, x.shape)
         THEN /\ x' = Tensor(RearrangeShape(self.middle_p, x.shape), <<"middle", 0>>)
              /\ pc' = "fwd_call_dec"
              /\ UNCHANGED err
         ELSE /\ Raise("RuntimeError")
              /\ UNCHANGED x
    /\ UNCHANGED <<args, conv_round, self, input, hidden_xs, it, vit_input, dec_skips, fused, out, reVars>>

(* line 76 without the [::-1] *)
SkipsForDecoder_Unreversed(hs) == hs

(* line 76: the list handed to the decoder *)
SkipsForDecoder(hs) == Reverse(hs)

DecoderCall ==
    /\ pc = "fwd_call_dec"
    /\ dec_skips' = SkipsForDecoder(hidden_xs)
    /\ pc' = "fwd_dec"
    /\ UNCHANGED <<args, conv_round, err, self, input, x, hidden_xs, it, vit_input, fused, out, reVars>>

(* One decoder stage: the running map is upsampled by 2 and fused with the
   skip map, which must have the same spatial size and the channel depth the
   stage was built for *)
DecoderStageAccepts(stage, t, skip) ==
    /\ t.shape[2] = stage.cin
    /\ skip.shape[2] = stage.skip
    /\ skip.shape[1] = t.shape[1]
    /\ skip.shape[3] = 2 * t.shape[3] /\ skip.shape[4] = 2 * t.shape[4]

DecoderStageForward(stage, k, t) ==
    Tensor(<<t.shape[1], stage.cout, 2 * t.shape[3], 2 * t.shape[4]>>, <<"dec", k>>)

DecoderRuns == IF Len(self.decoder) <= Len(dec_skips) THEN Len(self.decoder) ELSE Len(dec_skips)

DecoderStage ==
    /\ pc = "fwd_dec"
    /\ Len(fused) < DecoderRuns
    /\ LET k == Len(fused) + 1
           stage == self.decoder[k]
           skip == dec_skips[k]
       IN IF DecoderStageAccepts(stage, x, skip)
            THEN /\ x' = DecoderStageForward(stage, k, x)
                 /\ fused' = Append(fused, skip)
                 /\ UNCHANGED <<pc, err>>
            ELSE /\ Raise("RuntimeError")
                 /\ UNCHANGED <<x, fused>>
    /\ UNCHANGED <<args, conv_round, self, input, hidden_xs, it, vit_input, dec_skips, out, reVars>>

(* line 69 with the output depth taken from the input depth *)
OutputLayerForward_KeepsChannels(layer, t) ==
    Tensor(<<t.shape[1], layer.cin, t.shape[3], t.shape[4]>>, <<"output_layer", 0>>)

(* line 69: Conv2d(channel_in_between[0], output_channel, kernel_size=1) applied *)
OutputLayerForward(layer, t) ==
    Tensor(<<t.shape[1], layer.cout, t.shape[3], t.shape[4]>>, <<"output_layer", 0>>)

(* line 77, reached when the decoder has run all its stages *)
OutputLayer ==
    /\ pc = "fwd_dec"
    /\ Len(fused) = DecoderRuns
    /\ IF x.shape[2] = self.output_layer.cin
         THEN /\ x' = OutputLayerForward(self.output_layer, x)
              /\ pc' = "fwd_resize"
              /\ UNCHANGED err
         ELSE /\ Raise("RuntimeError")
              /\ UNCHANGED x
    /\ UNCHANGED <<args, conv_round, self, input, hidden_xs, it, vit_input, dec_skips, fused, out, reVars>>

(* line 79 with the flag ignored *)
ShouldResize_Always(to_remain_size) == TRUE

(* line 79 *)
ShouldResize(to_remain_size) == to_remain_size

(* line 82 always taking the input's size *)
InterpolateSize_OfInput(image_size, h, w) == <<h, w>>

(* line 82: the size handed to interpolate; an int stands for both dimensions *)
InterpolateSize(image_size, h, w) ==
    IF image_size # NoneSize THEN <<image_size, image_size>> ELSE <<h, w>>

(* lines 80-83 *)
Interpolate(t, size) ==
    Tensor(<<t.shape[1], t.shape[2], size[1], size[2]>>, <<"interpolate", 0>>)

(* lines 79-85 *)
ResizeAndReturn ==
    /\ pc = "fwd_resize"
    /\ out' = IF ShouldResize(self.to_remain_size)
                THEN Interpolate(x, InterpolateSize(self.image_size, input.shape[3], input.shape[4]))
                ELSE x
    /\ x' = out'
    /\ pc' = "returned"
    /\ UNCHANGED <<args, conv_round, err, self, input, hidden_xs, it, vit_input, dec_skips, fused, reVars>>

----------------------------------------------------------------------------
(* The middle layer on tensor contents.  A 3-d tensor is a sequence (batch) of
   sequences (tokens) of sequences (features); a 4-d tensor is nested once
   more.  Rearrange works on the row-major buffer: it views axis 1 as (p q)
   with p given and q inferred, then permutes the axes to b d p q. *)

MaxTokens == 4
MaxDim == 2

Shape3(t) == <<Len(t), Len(t[1]), Len(t[1][1])>>

Shape4(t) == <<Len(t), Len(t[1]), Len(t[1][1]), Len(t[1][1][1])>>

(* row-major buffer of a (B, T, D) tensor *)
Flat3(t) ==
    LET T == Len(t[1])
        D == Len(t[1][1])
    IN [i \in 1..(Len(t) * T * D) |->
           t[((i - 1) \div (T * D)) + 1][(((i - 1) \div D) % T) + 1][((i - 1) % D) + 1]]

(* the element (b, p, q, d) of the buffer viewed as (B, P, Q, D) *)
ViewBPQD(flat, P, Q, D, b, pp, qq, d) ==
    flat[((((b - 1) * P + (pp - 1)) * Q + (qq - 1)) * D) + d]

(* the pattern "b (q p) d -> b d p q" *)
Rearrange_QMajor(p, t) ==
    LET D == Len(t[1][1])
        Q == Len(t[1]) \div p
        flat == Flat3(t)
    IN [b \in 1..Len(t) |-> [d \in 1..D |-> [pp \in 1..p |-> [qq \in 1..Q |->
           ViewBPQD(flat, Q, p, D, b, qq, pp, d)]]]]

(* line 67 / line 75: Rearrange("b (p q) d -> b d p q", p=p) *)
Rearrange(p, t) ==
    LET D == Len(t[1][1])
        Q == Len(t[1]) \div p
        flat == Flat3(t)
    IN [b \in 1..Len(t) |-> [d \in 1..D |-> [pp \in 1..p |-> [qq \in 1..Q |->
           ViewBPQD(flat, p, Q, D, b, pp, qq, d)]]]]

(* the opposite layout, "b d p q -> b (p q) d" *)
InverseRearrange(g) ==
    LET D == Len(g[1])
        P == Len(g[1][1])
        Q == Len(g[1][1][1])
    IN [b \in 1..Len(g) |-> [t \in 1..(P * Q) |-> [d \in 1..D |->
           g[b][d][((t - 1) \div Q) + 1][((t - 1) % Q) + 1]]]]

(* token sequences whose elements are pairwise distinct *)
Labelled(B, T, D, base, step) ==
    [b \in 1..B |-> [t \in 1..T |-> [d \in 1..D |->
        base + step * ((((b - 1) * T + (t - 1)) * D) + d)]]]

InitRearrange ==
    /\ args = DocArgs(TRUE) /\ pc = "idle" /\ err = "" /\ self = NoSelf
    /\ conv_round = "floor"
    /\ input = NoTensor /\ x = NoTensor /\ hidden_xs = <<>> /\ it = 0
    /\ vit_input = NoTensor /\ dec_skips = <<>> /\ fused = <<>> /\ out = NoTensor
    /\ rpc = "ready"
    /\ rp \in 0..MaxTokens
    /\ \E B \in 1..MaxBatch, T \in 1..MaxTokens, D \in 1..MaxDim,
          base \in {0, 100}, step \in {1, -1} :
          rin = Labelled(B, T, D, base, step)
    /\ rout = <<>> /\ rback = <<>>

ApplyRearrange ==
    /\ rpc = "ready"
    /\ IF RearrangeAccepts(rp, Shape3(rin))
         THEN rout' = Rearrange(rp, rin) /\ rpc' = "rearranged"
         ELSE rout' = rout /\ rpc' = "raised"
    /\ UNCHANGED <<args, conv_round, pc, err, self, fwdVars, rp, rin, rback>>

ApplyInverse ==
    /\ rpc = "rearranged"
    /\ rback' = InverseRearrange(rout)
    /\ rpc' = "restored"
    /\ UNCHANGED <<args, conv_round, pc, err, self, fwdVars, rp, rin, rout>>

NextRearrange == ApplyRearrange \/ ApplyInverse

SpecRearrange == InitRearrange /\ [][NextRearrange]_vars

----------------------------------------------------------------------------
Next ==
    \/ UNetBaseInit
    \/ DeriveSizes
    \/ EncoderInit
    \/ MiddleInit
    \/ DecoderInit
    \/ OutputLayerInit
    \/ ForwardCall
    \/ EncoderStage
    \/ EncoderViT
    \/ MiddleLayer
    \/ DecoderCall
    \/ DecoderStage
    \/ OutputLayer
    \/ ResizeAndReturn

Spec == Init /\ [][Next]_vars

----------------------------------------------------------------------------
(* Properties *)

NumStages == Len(self.channel_in_between)

Constructing == pc \in {"new", "base", "sized", "encoder", "middle", "decoder"}

Built == ~Constructing /\ pc # "failed"

SquareInput ==
    /\ input.shape[2] = args.input_channel
    /\ input.shape[3] = self.image_size /\ input.shape[4] = self.image_size

(* C1, as stated: with to_remain_size set, the returned tensor has the
   spatial dimensions of the input, whatever they are. *)
C1_OutputHasInputSize ==
    (pc = "returned" /\ self.to_remain_size) =>
        (out.shape[3] = input.shape[3] /\ out.shape[4] = input.shape[4])

(* C1, amended: with to_remain_size set, the returned tensor has the
   configured image_size in both spatial dimensions; this is the input's size
   when the input is image_size x image_size, and the documented configuration
   maps (1,3,224,224) to (1,10,224,224). *)
C1_OutputHasConfiguredSize ==
    (pc = "returned" /\ self.to_remain_size) =>
        /\ out.shape[3] = self.image_size /\ out.shape[4] = self.image_size
        /\ SquareInput => (out.shape[3] = input.shape[3] /\ out.shape[4] = input.shape[4])
        /\ (args = DocArgs(TRUE) /\ input.shape = <<1, 3, 224, 224>>)
               => out.shape = <<1, 10, 224, 224>>

C1_Witness ==
    /\ pc = "returned" /\ self.to_remain_size
    /\ input.shape[3] # self.image_size
    /\ out.shape[3] = self.image_size /\ out.shape[4] = self.image_size

(* C2: with channel_in_between = [] construction stops in the encoder's
   constructor with the assertion's error; the object is never built, and a
   built model has at least one encoder stage. *)
C2_EmptyChannelsRejected ==
    /\ Len(args.channel_in_between) = 0 =>
          /\ pc \in {"new", "base", "sized", "failed"}
          /\ pc = "failed" => err = "AssertionError"
    /\ Built => Len(self.layers) >= 1

C2_Witness ==
    /\ Len(args.channel_in_between) = 0
    /\ pc = "failed" /\ err = "AssertionError"

(* C3: a model is built only when num_res_blocks_in_between has as many
   entries as channel_in_between. *)
C3_LengthMismatchRejected ==
    Built => Len(args.num_res_blocks_in_between) = Len(args.channel_in_between)

(* C4: a model is built only when image_size is divisible by
   2^(stages + 1), the encoder's and the transformer's downsampling. *)
C4_IndivisibleImageRejected ==
    Built => args.image_size % Pow2(Len(args.channel_in_between) + 1) = 0

(* C5: the encoder records one map per stage in encoder order: after k
   stages the list holds k maps, entry i is the output of stage i, and the
   transformer is given the last entry. *)
C5_SkipListInEncoderOrder ==
    /\ pc = "fwd_enc" => Len(hidden_xs) = it
    /\ \A i \in 1..Len(hidden_xs) : hidden_xs[i].by = <<"conv", i>>
    /\ pc \in {"fwd_mid", "fwd_call_dec", "fwd_dec", "fwd_resize", "returned"} =>
          /\ Len(hidden_xs) = NumStages
          /\ vit_input = hidden_xs[Len(hidden_xs)]

C5_Witness ==
    /\ pc = "fwd_mid"
    /\ Len(hidden_xs) >= 2
    /\ vit_input = hidden_xs[Len(hidden_xs)]

(* C6: for an input (B, input_channel, image_size, image_size) the returned
   tensor has batch B and output_channel channels, with or without resizing. *)
C6_OutputBatchAndChannels ==
    (pc = "returned" /\ SquareInput) =>
        (out.shape[1] = input.shape[1] /\ out.shape[2] = args.output_channel)

C6_Witness ==
    /\ pc = "returned" /\ SquareInput
    /\ input.shape[1] >= 2
    /\ args.output_channel # self.channel_in_between[1]
    /\ out.shape[2] = args.output_channel

NativeSize == self.vit_output_size * Pow2(NumStages)

(* C7: without to_remain_size the returned tensor is the output layer's own
   result; its spatial size is vit_output_size * 2^stages, a function of the
   configuration, and is less than 224 for the documented configuration. *)
C7_NoResizeNativeResolution ==
    (pc = "returned" /\ ~self.to_remain_size) =>
        /\ out.by = <<"output_layer", 0>>
        /\ out.shape[3] = NativeSize /\ out.shape[4] = NativeSize
        /\ args = DocArgs(FALSE) => (out.shape[3] < 224 /\ out.shape[4] < 224)

C7_Witness ==
    /\ pc = "returned" /\ args = DocArgs(FALSE)
    /\ out.shape = <<1, 10, 112, 112>>

(* C8: vit_input_size * 2^stages = image_size, vit_output_size * 2 =
   vit_input_size, hence vit_output_size * 2^(stages+1) = image_size; the
   transformer is built for vit_input_size and the middle layer with
   p = vit_output_size. *)
C8_DerivedSizesExact ==
    Built =>
        /\ self.vit_input_size * Pow2(NumStages) = self.image_size
        /\ self.vit_output_size * 2 = self.vit_input_size
        /\ self.vit_output_size * Pow2(NumStages + 1) = self.image_size
        /\ self.vit.image_size = self.vit_input_size
        /\ self.middle_p = self.vit_output_size

(* C9: the decoder is handed the skip list reversed: its k-th stage gets the
   map of encoder stage N+1-k (stages counted from 1), whose channels are the
   ones that stage was built for, and a pass that reaches the output layer has
   fused every skip map once. *)
C9_SkipsReversedForDecoder ==
    /\ pc \in {"fwd_dec", "fwd_resize", "returned"} =>
          /\ Len(dec_skips) = NumStages
          /\ Len(self.decoder) = NumStages
          /\ \A k \in 1..Len(dec_skips) :
                /\ dec_skips[k].by = <<"conv", NumStages + 1 - k>>
                /\ self.decoder[k].skip = dec_skips[k].shape[2]
          /\ \A k \in 1..Len(fused) : fused[k] = dec_skips[k]
    /\ pc \in {"fwd_resize", "returned"} => Len(fused) = NumStages

C9_Witness ==
    /\ pc = "returned"
    /\ Len(fused) >= 2
    /\ fused[1].by = <<"conv", NumStages>>
    /\ self.channel_in_between[1] # self.channel_in_between[NumStages]

Positions4(g) ==
    {<<b, d, pp, qq>> : b \in 1..Len(g), d \in 1..Len(g[1]),
                        pp \in 1..Len(g[1][1]), qq \in 1..Len(g[1][1][1])}

(* C10: the middle layer turns (B, P*Q, D) into (B, D, P, Q) with P = p and
   Q = tokens / P; feature d of token (p-1)*Q + q lands at (d, p, q), every
   input element occurs at exactly one output position, and the opposite
   layout gives back the input. *)
C10_RearrangeIsRelayout ==
    /\ rpc \in {"rearranged", "restored"} =>
          LET Q == Len(rin[1]) \div rp
          IN /\ Shape4(rout) = <<Len(rin), Len(rin[1][1]), rp, Q>>
             /\ Shape4(rout) = RearrangeShape(rp, Shape3(rin))
             /\ \A b \in 1..Len(rin), pp \in 1..rp, qq \in 1..Q, d \in 1..Len(rin[1][1]) :
                   rout[b][d][pp][qq] = rin[b][(pp - 1) * Q + qq][d]
             /\ \A b \in 1..Len(rin), t \in 1..Len(rin[1]), d \in 1..Len(rin[1][1]) :
                   Cardinality({pos \in Positions4(rout) :
                       rout[pos[1]][pos[2]][pos[3]][pos[4]] = rin[b][t][d]}) = 1
    /\ rpc = "restored" => rback = rin

C10_Witness ==
    /\ rpc = "restored"
    /\ rp >= 2 /\ Len(rin[1]) \div rp >= 2 /\ Len(rin[1][1]) >= 2
    /\ rback = rin

====
